---- MODULE Spec2Model ----
(***************************************************************************)
(* A model of the Gyoshu Python bridge (.opencode/bridge/gyoshu_bridge.py): *)
(* the JSON-RPC dispatcher (process_request and its handlers), the          *)
(* execution engine (execute_code) with its alarm timer, the execution      *)
(* context (ExecutionState) and the stdin transport loop (run_stdin_mode).  *)
(*                                                                         *)
(* Python and JSON values are records [t, s, n]: t is the type tag, s the   *)
(* text of a string, n the value of a number in tenths (so that fractional  *)
(* seconds can be told from whole ones), 10 or 0 for a bool, and the number *)
(* of entries of a list or dict.                                            *)
(***************************************************************************)
EXTENDS Integers, Sequences, FiniteSets, TLC

VARIABLES
    ns,        \* _state._namespace: name -> value
    flag,      \* _state._interrupt_flag (threading.Event)
    sigalrm,   \* hasattr(signal, "SIGALRM") on this platform
    loop,      \* where run_stdin_mode is: "read", "handled", or how it ended
    line,      \* the line handed to process_request in this iteration
    out,       \* what _send_protocol wrote for that line
    rec,       \* what happened inside handle_execute / execute_code for it
    args,      \* arguments of a direct call of send_response or parse_markers
    ret,       \* what a direct call of parse_markers returned
    srv,       \* socket mode: the listening socket, its path, the connection
    threads    \* callers of the context's operations and the holder of its lock

vars == <<ns, flag, sigalrm, loop, line, out, rec, args, ret, srv, threads>>

-----------------------------------------------------------------------------
(* Values *)

None == [t |-> "null", s |-> "", n |-> 0]
Missing == [t |-> "absent", s |-> "", n |-> 0]
Str(s) == [t |-> "str", s |-> s, n |-> 0]
Num(tenths) == [t |-> "num", s |-> "", n |-> tenths]
Bool(b) == [t |-> "bool", s |-> "", n |-> IF b THEN 10 ELSE 0]
List(k) == [t |-> "list", s |-> "", n |-> k]
Dict(k) == [t |-> "obj", s |-> "", n |-> k]

\* d.get(key): an absent key reads as None
Get(v) == IF v.t = "absent" THEN None ELSE v

\* d.get(key, default)
GetDefault(v, default) == IF v.t = "absent" THEN default ELSE v

IsValue(v) == "t" \in DOMAIN v

\* `x is None`
IsNone(v) == IsValue(v) /\ v.t = "null"

\* bool(x)
Truthy(v) ==
    CASE v.t \in {"null", "absent"} -> FALSE
      [] v.t = "str" -> v.s # ""
      [] OTHER -> v.n # 0

\* isinstance(x, str)
IsStr(v) == v.t = "str"

\* isinstance(x, (int, float)): bool is a subclass of int
IsNumber(v) == v.t \in {"num", "bool"}

\* int(x) of a number, truncating toward zero; the result is in whole units
IntOf(v) == IF v.n >= 0 THEN v.n \div 10 ELSE -((-v.n) \div 10)

Range(f) == {f[i] : i \in DOMAIN f}

-----------------------------------------------------------------------------
(* JSON-RPC protocol *)

JSON_RPC_VERSION == "2.0"

ERROR_PARSE == -32700
ERROR_INVALID_REQUEST == -32600
ERROR_METHOD_NOT_FOUND == -32601
ERROR_INVALID_PARAMS == -32602
ERROR_INTERNAL == -32603
ERROR_EXECUTION == -32000
ERROR_TIMEOUT == -32001

\* send_response builds the response object handed to _send_protocol
send_response_neither(id, result, error) ==
    LET response == "jsonrpc" :> JSON_RPC_VERSION
        withId == IF ~IsNone(id) THEN response @@ ("id" :> id) ELSE response
    IN  IF ~IsNone(error) THEN withId @@ ("error" :> error)
        ELSE IF ~IsNone(result) THEN withId @@ ("result" :> result)
        ELSE withId

send_response(id, result, error) ==
    LET response == "jsonrpc" :> JSON_RPC_VERSION
        withId == IF ~IsNone(id) THEN response @@ ("id" :> id) ELSE response
    IN  IF ~IsNone(error) THEN withId @@ ("error" :> error)
        ELSE withId @@ ("result" :> result)

\* make_error: message is the f-string's pieces, in order
make_error(code, message, data) ==
    LET error == ("code" :> code) @@ ("message" :> message)
    IN  IF ~IsNone(data) THEN error @@ ("data" :> data) ELSE error

-----------------------------------------------------------------------------
(* Marker parsing (parse_markers).  A text is a sequence of characters;    *)
(* positions are 1-indexed, so position p is Python's index p - 1.         *)

\* the characters \s matches
Whitespace == {" ", "\t", "\n", "\r", "\f"}

\* [A-Z] and [A-Z0-9_]
UpperCase == {"A", "B", "C", "D", "E", "F", "G", "H", "I", "J", "K", "L", 
              "M", "N", "O", "P", "Q", "R", "S", "T", "U", "V", "W", "X", "Y", "Z"}
TypeChars == UpperCase \cup {"0", "1", "2", "3", "4", "5", "6", "7", "8", "9", "_"}

MARKER_CATEGORIES ==
    ("OBJECTIVE" :> "research_process")
    @@ ("HYPOTHESIS" :> "research_process")
    @@ ("EXPERIMENT" :> "research_process")
    @@ ("OBSERVATION" :> "research_process")
    @@ ("ANALYSIS" :> "research_process")
    @@ ("CONCLUSION" :> "research_process")
    @@ ("DATA" :> "data_operations")
    @@ ("SHAPE" :> "data_operations")
    @@ ("DTYPE" :> "data_operations")
    @@ ("RANGE" :> "data_operations")
    @@ ("MISSING" :> "data_operations")
    @@ ("MEMORY" :> "data_operations")
    @@ ("CALC" :> "calculations")
    @@ ("METRIC" :> "calculations")
    @@ ("STAT" :> "calculations")
    @@ ("CORR" :> "calculations")
    @@ ("PLOT" :> "artifacts")
    @@ ("ARTIFACT" :> "artifacts")
    @@ ("TABLE" :> "artifacts")
    @@ ("FIGURE" :> "artifacts")
    @@ ("FINDING" :> "insights")
    @@ ("INSIGHT" :> "insights")
    @@ ("PATTERN" :> "insights")
    @@ ("STEP" :> "workflow")
    @@ ("CHECK" :> "workflow")
    @@ ("INFO" :> "workflow")
    @@ ("WARNING" :> "workflow")
    @@ ("ERROR" :> "workflow")
    @@ ("DEBUG" :> "workflow")
    @@ ("CITATION" :> "scientific")
    @@ ("LIMITATION" :> "scientific")
    @@ ("NEXT_STEP" :> "scientific")
    @@ ("DECISION" :> "scientific")

\* dict.get(marker_type, "unknown")
CategoryOf(marker_type) ==
    IF marker_type \in DOMAIN MARKER_CATEGORIES
    THEN MARKER_CATEGORIES[marker_type] ELSE "unknown"

\* the string made of the characters of s
RECURSIVE Join(_)
Join(s) == IF s = <<>> THEN "" ELSE s[1] \o Join(Tail(s))

\* a greedy repetition of a character class from position i: the first
\* position at or after i whose character is not in S (Len(t) + 1 at the end)
RECURSIVE SkipIn(_, _, _)
SkipIn(t, i, S) ==
    IF i > Len(t) \/ t[i] \notin S THEN i ELSE SkipIn(t, i + 1, S)

\* the same for a negated class
RECURSIVE SkipOut(_, _, _)
SkipOut(t, i, S) ==
    IF i > Len(t) \/ t[i] \in S THEN i ELSE SkipOut(t, i + 1, S)

\* str.strip()
RECURSIVE StripLeft(_)
StripLeft(s) ==
    IF s = <<>> \/ s[1] \notin Whitespace THEN s ELSE StripLeft(Tail(s))

RECURSIVE StripRight(_)
StripRight(s) ==
    IF s = <<>> \/ s[Len(s)] \notin Whitespace THEN s
    ELSE StripRight(SubSeq(s, 1, Len(s) - 1))

Strip(s) == StripRight(StripLeft(s))

\* text[:k].count("\n")
CountNewlines(t, k) == Cardinality({i \in 1..k : t[i] = "\n"})

\* ^ under re.MULTILINE: the start of the text or just after a newline
LineStart(t, p) == p = 1 \/ t[p - 1] = "\n"

NoMatch == [ok |-> FALSE, start |-> 0, end |-> 0, bracket |-> 0,
            type |-> "", subtype |-> None, content |-> ""]

\* MARKER_REGEX tried at line start p, piece by piece.  Each repetition is
\* greedy and is followed by a character outside its class, so the longest
\* repetition is the only one that can lead to a match.
\* $ : (.*) ran to position e, the end of the text or a newline
MarkerMatched(t, p, a, c, subtype, s, e) ==
    [ok |-> TRUE, start |-> p, end |-> e, bracket |-> a,
     type |-> Join(SubSeq(t, a + 1, c - 1)),
     subtype |-> subtype,
     content |-> Join(Strip(SubSeq(t, s, e - 1)))]

\* \]\s*(.*) : the tag closed at position close
MarkerAfterTag(t, p, a, c, subtype, close) ==
    MarkerMatched(t, p, a, c, subtype, SkipIn(t, close + 1, Whitespace),
                  SkipOut(t, SkipIn(t, close + 1, Whitespace), {"\n"}))

\* (?::([^\]]+))? : the colon is at c and [^\]]+ ran to position d
MarkerAfterColon(t, p, a, c, d) ==
    IF d = c + 1 \/ d > Len(t) THEN NoMatch
    ELSE MarkerAfterTag(t, p, a, c, Str(Join(SubSeq(t, c + 1, d - 1))), d)

\* ([A-Z][A-Z0-9_]*) ran from a + 1 to c - 1
MarkerAfterType(t, p, a, c) ==
    IF c > Len(t) THEN NoMatch
    ELSE IF t[c] = "]" THEN MarkerAfterTag(t, p, a, c, None, c)
    ELSE IF t[c] = ":" THEN MarkerAfterColon(t, p, a, c, SkipOut(t, c + 1, {"]"}))
    ELSE NoMatch

\* ^\s*\[ : \s* ran from p to a - 1
MarkerAfterSpace(t, p, a) ==
    IF a + 1 > Len(t) \/ t[a] # "[" \/ t[a + 1] \notin UpperCase THEN NoMatch
    ELSE MarkerAfterType(t, p, a, SkipIn(t, a + 2, TypeChars))

MARKER_REGEX(t, p) ==
    IF LineStart(t, p) THEN MarkerAfterSpace(t, p, SkipIn(t, p, Whitespace))
    ELSE NoMatch

\* MARKER_REGEX.finditer(text) from position pos on: the matches in order,
\* each search starting where the previous match ended
RECURSIVE finditer(_, _)
finditer(t, pos) ==
    IF pos > Len(t) THEN <<>>
    ELSE IF MARKER_REGEX(t, pos).ok
    THEN <<MARKER_REGEX(t, pos)>> \o finditer(t, MARKER_REGEX(t, pos).end)
    ELSE finditer(t, pos + 1)

\* the marker dict built from one match
MarkerOf(t, match) ==
    [type |-> match.type,
     subtype |-> match.subtype,
     content |-> match.content,
     line_number |-> CountNewlines(t, match.start - 1) + 1,
     category |-> CategoryOf(match.type)]

MarkersOf(t, matches) == [i \in 1..Len(matches) |-> MarkerOf(t, matches[i])]

parse_markers(text) == MarkersOf(text, finditer(text, 1))

-----------------------------------------------------------------------------
(* Memory probe and execution context (ExecutionState) *)

\* What the probe finds on this host at one call: psutil importable and
\* working ("ok"), not installed ("missing", ImportError), or installed but
\* failing ("AccessDenied"); and, for the fallback, /proc/<pid>/status
\* readable and well formed ("ok"), not readable ("unreadable", OSError) or
\* holding a VmRSS/VmSize line whose second field is no integer
\* ("unparsable", ValueError).
Probes ==
    {[psutil |-> "ok", proc |-> "ok"], [psutil |-> "AccessDenied", proc |-> "ok"]}
    \cup [psutil : {"missing"}, proc : {"ok", "unreadable", "unparsable"}]

\* the readings of a working probe, in tenths of a MB
RssReading == Num(115)
VmsReading == Num(151)

\* get_memory_usage in environment m: the exception that leaves it ("none"
\* when it returns) and the dict it returns.  Only ImportError is caught
\* around the psutil calls (line 215); the fallback catches Exception.
get_memory_usage(m) ==
    IF m.psutil = "ok"
    THEN [raised |-> "none", value |-> [rss_mb |-> RssReading, vms_mb |-> VmsReading]]
    ELSE IF m.psutil # "missing"
    THEN [raised |-> m.psutil, value |-> [rss_mb |-> Num(0), vms_mb |-> Num(0)]]
    ELSE IF m.proc = "ok"
    THEN [raised |-> "none", value |-> [rss_mb |-> RssReading, vms_mb |-> VmsReading]]
    ELSE [raised |-> "none", value |-> [rss_mb |-> Num(0), vms_mb |-> Num(0)]]

\* no probe was called
NoProbe == [raised |-> "none", value |-> [rss_mb |-> Num(0), vms_mb |-> Num(0)]]

\* The objects the seed binds, as opaque value codes
SeedNameValue == 9001
SeedDocValue == 9002
CleanMemoryFn == 9003
GetMemoryFn == 9004

\* the builtins reference exec() inserts into its globals
BuiltinsModule == 9005

\* ExecutionState._initialize_namespace
initialize_namespace ==
    ("__name__" :> SeedNameValue) @@ ("__doc__" :> SeedDocValue)
    @@ ("clean_memory" :> CleanMemoryFn) @@ ("get_memory" :> GetMemoryFn)

\* str.startswith("_") of a namespace key, over the names that occur
StartsWithUnderscore(k) == k \in {"__name__", "__doc__", "__builtins__", "_tmp"}

\* ExecutionState.reset: the new namespace, the new flag, and the result
\* built from the probe's outcome mem (raised: what leaves the call)
state_reset(mem) ==
    [namespace |-> initialize_namespace,
     interrupt_flag |-> FALSE,
     raised |-> mem.raised,
     result |-> [status |-> Str("reset"), memory |-> mem.value]]

\* ExecutionState.get_state on namespace n
state_get_state_all(n, mem) ==
    [raised |-> mem.raised,
     result |-> [memory |-> mem.value,
                 variables |-> {k \in DOMAIN n : ~StartsWithUnderscore(k)},
                 variable_count |->
                     Cardinality({k \in DOMAIN n : ~StartsWithUnderscore(k)})]]

state_get_state(n, mem) ==
    LET user_vars == {k \in DOMAIN n :
                        ~StartsWithUnderscore(k)
                        /\ k \notin {"clean_memory", "get_memory"}}
    IN  [raised |-> mem.raised,
         result |-> [memory |-> mem.value,
                     variables |-> user_vars,
                     variable_count |-> Cardinality(user_vars)]]

\* ExecutionState.interrupt: the new flag and the result
state_interrupt_unset ==
    [interrupt_flag |-> FALSE,
     result |-> [status |-> Str("interrupt_requested")]]

state_interrupt ==
    [interrupt_flag |-> TRUE,
     result |-> [status |-> Str("interrupt_requested")]]

-----------------------------------------------------------------------------
(* Submitted code.  A code string stands for what running it does: whether *)
(* compile() accepts it, the steps exec() takes in order, and how exec()    *)
(* ends: "return", "raise" (of kind exc), "hang" (it never ends by itself)  *)
(* or "swallow" (it never ends and catches whatever is raised inside it).  *)

Bind(name, val) ==
    [op |-> "bind", name |-> name, val |-> val, text |-> <<>>, from |-> ""]
Write(text) ==
    [op |-> "print", name |-> "", val |-> 0, text |-> text, from |-> ""]
\* name = from * val
Derive(name, from, val) ==
    [op |-> "derive", name |-> name, val |-> val, text |-> <<>>, from |-> from]
\* del name
Del(name) ==
    [op |-> "del", name |-> name, val |-> 0, text |-> <<>>, from |-> ""]
\* os.write(1, text): a write to file descriptor 1, past sys.stdout
FdWrite(text) ==
    [op |-> "fdwrite", name |-> "", val |-> 0, text |-> text, from |-> ""]

StepLine == <<"[", "S", "T", "E", "P", "]", " ", "s", "t", "a", "r", "t", "\n">>

CodeAssign == "x = 10"
CodeAssignRaise == "a = 1; raise ValueError('boom')"
CodePrintRaise == "print('[STEP] start'); raise RuntimeError('fail')"
CodeSyntax == "def ("
CodeExit == "import sys; sys.exit()"
CodeHang == "while True: pass"

Codes == {CodeAssign, CodeAssignRaise, CodePrintRaise, CodeSyntax, CodeExit,
          CodeHang}

CodeDouble == "y = x * 2"
CodeReassign == "x = 7"
CodeDelete == "del x"
CodeHelpers == "_tmp = 1; clean_memory = 2; del get_memory"
RawLine == <<"r", "a", "w", "\n">>
CodeFdWrite == "import os; os.write(1, b'raw\\n')"
CodeTriple == "b = a * 3"
CodeSwallow == "while True:\n    try: time.sleep(1)\n    except BaseException: pass"

\* code sent in a longer session
SessionCodes == {CodeAssign, CodeDouble, CodeReassign, CodeDelete, CodeHelpers,
                 CodePrintRaise, CodeFdWrite, CodeAssignRaise, CodeTriple}

Program(code) ==
    CASE code = CodeAssign ->
           [syntax |-> TRUE, steps |-> <<Bind("x", 10)>>, end |-> "return",
            exc |-> "", msg |-> ""]
      [] code = CodeAssignRaise ->
           [syntax |-> TRUE, steps |-> <<Bind("a", 1)>>, end |-> "raise",
            exc |-> "ValueError", msg |-> "boom"]
      [] code = CodePrintRaise ->
           [syntax |-> TRUE, steps |-> <<Write(StepLine)>>, end |-> "raise",
            exc |-> "RuntimeError", msg |-> "fail"]
      [] code = CodeSyntax ->
           [syntax |-> FALSE, steps |-> <<>>, end |-> "return",
            exc |-> "", msg |-> ""]
      [] code = CodeExit ->
           [syntax |-> TRUE, steps |-> <<>>, end |-> "raise",
            exc |-> "SystemExit", msg |-> ""]
      [] code = CodeHang ->
           [syntax |-> TRUE, steps |-> <<>>, end |-> "hang",
            exc |-> "", msg |-> ""]
      [] code = CodeDouble ->
           [syntax |-> TRUE, steps |-> <<Derive("y", "x", 2)>>, end |-> "return",
            exc |-> "", msg |-> ""]
      [] code = CodeReassign ->
           [syntax |-> TRUE, steps |-> <<Bind("x", 7)>>, end |-> "return",
            exc |-> "", msg |-> ""]
      [] code = CodeDelete ->
           [syntax |-> TRUE, steps |-> <<Del("x")>>, end |-> "return",
            exc |-> "", msg |-> ""]
      [] code = CodeHelpers ->
           [syntax |-> TRUE,
            steps |-> <<Bind("_tmp", 1), Bind("clean_memory", 2), Del("get_memory")>>,
            end |-> "return", exc |-> "", msg |-> ""]
      [] code = CodeFdWrite ->
           [syntax |-> TRUE, steps |-> <<FdWrite(RawLine)>>, end |-> "return",
            exc |-> "", msg |-> ""]
      [] code = CodeTriple ->
           [syntax |-> TRUE, steps |-> <<Derive("b", "a", 3)>>, end |-> "return",
            exc |-> "", msg |-> ""]
      [] code = CodeSwallow ->
           [syntax |-> TRUE, steps |-> <<>>, end |-> "swallow",
            exc |-> "", msg |-> ""]

\* one step of the code on namespace n; a step that cannot run (its name
\* is not bound) leaves n alone
StepOn(n, st) ==
    CASE st.op = "bind" ->
           [key \in DOMAIN n \cup {st.name} |->
               IF key = st.name THEN st.val ELSE n[key]]
      [] st.op = "derive" /\ st.from \in DOMAIN n ->
           [key \in DOMAIN n \cup {st.name} |->
               IF key = st.name THEN n[st.from] * st.val ELSE n[key]]
      [] st.op = "del" /\ st.name \in DOMAIN n ->
           [key \in DOMAIN n \ {st.name} |-> n[key]]
      [] OTHER -> n

\* exec(compiled, namespace): the namespace after the first k steps
RECURSIVE NamespaceAfter_fresh(_, _, _)
NamespaceAfter_fresh(n, steps, k) ==
    IF k = 0 THEN [key \in {"__name__"} |-> n[key]]
    ELSE StepOn(NamespaceAfter_fresh(n, steps, k - 1), steps[k])

RECURSIVE NamespaceAfter(_, _, _)
NamespaceAfter(n, steps, k) ==
    IF k = 0 THEN n
    ELSE StepOn(NamespaceAfter(n, steps, k - 1), steps[k])

\* exec() inserts a reference to the builtins module into globals that lack one
ExecGlobals(n) ==
    IF "__builtins__" \in DOMAIN n THEN n
    ELSE [key \in DOMAIN n \cup {"__builtins__"} |->
            IF key = "__builtins__" THEN BuiltinsModule ELSE n[key]]

\* the step reads or deletes a name that namespace n does not bind: NameError
StepFails(n, st) ==
    \/ st.op = "derive" /\ st.from \notin DOMAIN n
    \/ st.op = "del" /\ st.name \notin DOMAIN n

\* the first step from k on that raises NameError when the code runs on n;
\* 0 when none does
RECURSIVE FirstFailing(_, _, _)
FirstFailing(n, steps, k) ==
    IF k > Len(steps) THEN 0
    ELSE IF StepFails(NamespaceAfter(n, steps, k - 1), steps[k]) THEN k
    ELSE FirstFailing(n, steps, k + 1)

\* what running p on namespace n does: p itself, or its steps up to the
\* first one that raises NameError
RaisesNameError(p, k) ==
    [syntax |-> TRUE, steps |-> SubSeq(p.steps, 1, k - 1), end |-> "raise",
     exc |-> "NameError", msg |-> "name is not defined"]

ProgramOn(p, n) ==
    IF FirstFailing(n, p.steps, 1) = 0 THEN p
    ELSE RaisesNameError(p, FirstFailing(n, p.steps, 1))

\* what the first k steps wrote to the redirected sys.stdout
RECURSIVE StdoutAfter(_, _)
StdoutAfter(steps, k) ==
    IF k = 0 THEN <<>>
    ELSE StdoutAfter(steps, k - 1)
         \o (IF steps[k].op = "print" THEN steps[k].text ELSE <<>>)

\* what the first k steps wrote to file descriptor 1, the descriptor the
\* protocol channel was duplicated from (line 48)
RECURSIVE FdAfter(_, _)
FdAfter(steps, k) ==
    IF k = 0 THEN <<>>
    ELSE FdAfter(steps, k - 1)
         \o (IF steps[k].op = "fdwrite" THEN steps[k].text ELSE <<>>)

\* `except Exception` catches it (SystemExit, KeyboardInterrupt and
\* GeneratorExit derive from BaseException only)
IsException(exc) == exc \notin {"none", "SystemExit", "KeyboardInterrupt", "GeneratorExit"}

-----------------------------------------------------------------------------
(* Asynchronous signals.  SIGALRM runs _timeout_handler, SIGINT Python's    *)
(* default handler; either raises in the main thread at whatever statement  *)
(* is executing.  A signal record says which signal arrives during one      *)
(* execute_code call and where: "run" (inside the with block, after cut     *)
(* steps of the code), "tail" (after result["success"] = True, still inside *)
(* the try), "except" (inside the except clause that caught the failure),   *)
(* "finally" (in the finally block, before signal.alarm(0) takes effect).   *)

MaxProgramLen ==
    CHOOSE k \in 0..8 :
        /\ \A c \in Codes \cup SessionCodes : Len(Program(c).steps) <= k
        /\ \E c \in Codes \cup SessionCodes : Len(Program(c).steps) = k

NoSignal == [sig |-> "none", at |-> "run", cut |-> 0]

Signals ==
    {NoSignal} \cup [sig : {"ALRM", "INT"},
                     at : {"run", "tail", "except", "finally"},
                     cut : 0..MaxProgramLen]

\* what the signal's handler raises
SignalRaises(sig) ==
    CASE sig = "ALRM" -> "TimeoutError"
      [] sig = "TERM" -> "SystemExit"
      [] OTHER -> "KeyboardInterrupt"

\* the except clauses of execute_code, in order; "" when none matches
ExceptClause(exc) ==
    CASE exc = "none" -> ""
      [] exc = "TimeoutError" -> "TimeoutError"
      [] exc = "KeyboardInterrupt" -> "KeyboardInterrupt"
      [] exc = "SyntaxError" -> "SyntaxError"
      [] IsException(exc) -> "Exception"
      [] OTHER -> ""

-----------------------------------------------------------------------------
(* Execution engine (execute_code).  Its steps take what the earlier steps  *)
(* produced as parameters: p is the compiled code, armed the seconds of the *)
(* timer, e the signal arriving during the call.                            *)

\* signal.alarm(int(timeout)) under `if timeout and hasattr(signal, "SIGALRM")`:
\* the seconds the timer is armed for; alarm(0) arms nothing
AlarmSeconds(timeout, hasAlarm) ==
    IF Truthy(timeout) /\ hasAlarm THEN IntOf(timeout) ELSE 0

\* the with block (lines 369-376): what it raises, after how many steps of
\* the code, and whether it never ends
TryBody_unparsed(p, e) ==
    IF e.sig # "none" /\ e.at = "run" /\ ~(p.syntax /\ p.end = "swallow")
    THEN [exc |-> SignalRaises(e.sig),
          cut |-> IF e.cut <= Len(p.steps) THEN e.cut ELSE Len(p.steps),
          hangs |-> FALSE]
    ELSE IF p.end = "raise"
    THEN [exc |-> p.exc, cut |-> Len(p.steps), hangs |-> FALSE]
    ELSE [exc |-> "none", cut |-> Len(p.steps),
          hangs |-> p.end \in {"hang", "swallow"}]

TryBody(p, e) ==
    IF e.sig # "none" /\ e.at = "run" /\ ~(p.syntax /\ p.end = "swallow")
    THEN [exc |-> SignalRaises(e.sig),
          cut |-> IF e.cut <= Len(p.steps) THEN e.cut ELSE Len(p.steps),
          hangs |-> FALSE]
    ELSE IF ~p.syntax
    THEN [exc |-> "SyntaxError", cut |-> 0, hangs |-> FALSE]
    ELSE IF p.end = "raise"
    THEN [exc |-> p.exc, cut |-> Len(p.steps), hangs |-> FALSE]
    ELSE [exc |-> "none", cut |-> Len(p.steps),
          hangs |-> p.end \in {"hang", "swallow"}]

\* the exception the except clauses see: the body's, or a signal's raised
\* after result["success"] = True (line 378) and before the try is left
InTry(body, e) ==
    IF body.exc = "none" /\ ~body.hangs /\ e.sig # "none" /\ e.at = "tail"
    THEN SignalRaises(e.sig)
    ELSE body.exc

\* what the matching except clause stores (lines 380-402)
ExceptFields(clause, p) ==
    CASE clause = "TimeoutError" ->
           [exception |-> Str("Code execution timed out"),
            exception_type |-> Str("TimeoutError"),
            traceback |-> Str("Execution timed out")]
      [] clause = "KeyboardInterrupt" ->
           [exception |-> Str("Execution interrupted"),
            exception_type |-> Str("KeyboardInterrupt"),
            traceback |-> Str("Interrupted by user")]
      [] clause = "SyntaxError" ->
           [exception |-> Str("invalid syntax (<gyoshu>, line 1)"),
            exception_type |-> Str("SyntaxError"),
            traceback |-> Str("Traceback (most recent call last): ...")]
      [] clause = "Exception" ->
           [exception |-> Str(p.msg),
            exception_type |-> Str(p.exc),
            traceback |-> Str("Traceback (most recent call last): ...")]
      [] OTHER ->
           [exception |-> None, exception_type |-> None, traceback |-> None]

\* the exception that leaves execute_code: one raised inside the except
\* clause or the finally block replaces what was being handled
Leaving(clause, inTry, e) ==
    IF e.sig # "none" /\ e.at = "finally" THEN SignalRaises(e.sig)
    ELSE IF clause = "" THEN inTry
    ELSE IF e.sig # "none" /\ e.at = "except" THEN SignalRaises(e.sig)
    ELSE "none"

\* whether signal e can arrive as it says during this call: SIGALRM needs an
\* armed timer, each place must be passed through, and a run that never
\* ends meets an armed timer
SignalFeasible(p, armed, e) ==
    /\ e.sig = "none" => e = NoSignal
    /\ e.sig = "ALRM" => armed > 0
    /\ e.sig # "none" /\ e.at = "run" => e.cut <= Len(p.steps)
    /\ e.sig # "none" /\ e.at # "run" =>
          e.cut = 0 /\ ~(p.syntax /\ p.end \in {"hang", "swallow"})
    /\ e.sig # "none" /\ e.at = "tail" => p.syntax /\ p.end = "return"
    /\ e.sig # "none" /\ e.at = "except" =>
          ~p.syntax \/ (p.end = "raise" /\ ExceptClause(p.exc) # "")
    /\ e.sig = "none" /\ p.syntax /\ p.end = "hang" => armed = 0

\* lines 404-414: the finally block and the return
Finish(p, namespace, armed, e, body, inTry) ==
    [raised |-> IF body.hangs THEN "none"
                ELSE Leaving(ExceptClause(inTry), inTry, e),
     hung |-> body.hangs,
     feasible |-> SignalFeasible(p, armed, e),
     armed |-> armed,
     fd1 |-> IF p.syntax THEN FdAfter(p.steps, body.cut) ELSE <<>>,
     namespace |-> IF p.syntax
                   THEN NamespaceAfter(ExecGlobals(namespace), p.steps, body.cut)
                   ELSE namespace,
     result |-> [success |-> body.exc = "none",
                 stdout |-> StdoutAfter(p.steps, body.cut),
                 stderr |-> <<>>,
                 exception |-> ExceptFields(ExceptClause(inTry), p).exception,
                 exception_type |-> ExceptFields(ExceptClause(inTry), p).exception_type,
                 traceback |-> ExceptFields(ExceptClause(inTry), p).traceback]]

Classify(p, namespace, armed, e, body) ==
    Finish(p, namespace, armed, e, body, InTry(body, e))

\* as if the namespace were restored when the run fails
RunCompiled_rolling_back(p, namespace, armed, e) ==
    [Classify(p, namespace, armed, e, TryBody(p, e))
        EXCEPT !.namespace = IF TryBody(p, e).exc = "none" THEN @ ELSE namespace]

RunCompiled(p, namespace, armed, e) ==
    Classify(p, namespace, armed, e, TryBody(p, e))

\* execute_code(code, namespace, timeout) with signal e arriving.
\* raised: the exception that leaves the call ("none": result is returned);
\* hung: the call never returns.
execute_code(code, namespace, timeout, e, hasAlarm) ==
    RunCompiled(ProgramOn(Program(code), namespace), namespace,
                AlarmSeconds(timeout, hasAlarm), e)

-----------------------------------------------------------------------------
(* Request handlers.  A handler returns what it wrote (out), the execution  *)
(* context it leaves (namespace, flag), the exception that leaves it        *)
(* (raised, "none" when it returns), and a record of the run.               *)

DEFAULT_TIMEOUT == 300

Seconds(k) == Num(10 * k)

NoResult == [success |-> FALSE, stdout |-> <<>>, stderr |-> <<>>,
             exception |-> None, exception_type |-> None, traceback |-> None]

\* nothing was run
NoRun == [handler |-> "", ran |-> FALSE, returned |-> FALSE, armed |-> 0,
          timeout |-> None, result |-> NoResult, signal |-> NoSignal,
          probe |-> NoProbe, fd1 |-> <<>>,
          before |-> [namespace |-> initialize_namespace, flag |-> FALSE]]

Handled(name) == [NoRun EXCEPT !.handler = name]

\* the timeout handle_execute passes on (lines 444-446)
EffectiveTimeout(params) ==
    LET timeout == GetDefault(params.timeout, Seconds(DEFAULT_TIMEOUT))
    IN  IF ~IsNumber(timeout) \/ timeout.n <= 0
        THEN Seconds(DEFAULT_TIMEOUT)
        ELSE timeout

\* the two early returns of handle_execute (lines 430-442): Invalid-Params
\* is sent and nothing else is touched
invalid_code_clearing(id, message, n, f, e) ==
    [out |-> <<send_response(id, None,
                 make_error(ERROR_INVALID_PARAMS, <<message>>, None))>>,
     namespace |-> n, flag |-> FALSE, raised |-> "none", hung |-> FALSE,
     feasible |-> e = NoSignal, rec |-> Handled("execute")]

invalid_code(id, message, n, f, e) ==
    [out |-> <<send_response(id, None,
                 make_error(ERROR_INVALID_PARAMS, <<message>>, None))>>,
     namespace |-> n, flag |-> f, raised |-> "none", hung |-> FALSE,
     feasible |-> e = NoSignal, rec |-> Handled("execute")]

\* the result object of an execute response (lines 470-489)
execute_response_unparsed(result, mem) ==
    IF ~result.success
    THEN [success |-> result.success,
          stdout |-> result.stdout,
          stderr |-> result.stderr,
          markers |-> <<>>,
          artifacts |-> <<>>,
          timing |-> [started_at |-> Str("<iso-8601>"), duration_ms |-> Num(0)],
          memory |-> mem.value,
          error |-> [type |-> result.exception_type,
                     message |-> result.exception,
                     traceback |-> result.traceback]]
    ELSE [success |-> result.success,
          stdout |-> result.stdout,
          stderr |-> result.stderr,
          markers |-> <<>>,
          artifacts |-> <<>>,
          timing |-> [started_at |-> Str("<iso-8601>"), duration_ms |-> Num(0)],
          memory |-> mem.value]

execute_response(result, mem) ==
    IF ~result.success
    THEN [success |-> result.success,
          stdout |-> result.stdout,
          stderr |-> result.stderr,
          markers |-> parse_markers(result.stdout),
          artifacts |-> <<>>,
          timing |-> [started_at |-> Str("<iso-8601>"), duration_ms |-> Num(0)],
          memory |-> mem.value,
          error |-> [type |-> result.exception_type,
                     message |-> result.exception,
                     traceback |-> result.traceback]]
    ELSE [success |-> result.success,
          stdout |-> result.stdout,
          stderr |-> result.stderr,
          markers |-> parse_markers(result.stdout),
          artifacts |-> <<>>,
          timing |-> [started_at |-> Str("<iso-8601>"), duration_ms |-> Num(0)],
          memory |-> mem.value]

\* lines 448-491, x being what execute_code did and mem what the probe of
\* line 480 does once execute_code has returned
execute_and_respond(id, timeout, e, x, mem) ==
    [out |-> IF x.raised = "none" /\ ~x.hung /\ mem.raised = "none"
             THEN <<send_response(id, execute_response(x.result, mem), None)>>
             ELSE <<>>,
     namespace |-> x.namespace,
     flag |-> FALSE,
     raised |-> IF x.raised = "none" /\ ~x.hung THEN mem.raised ELSE x.raised,
     hung |-> x.hung,
     feasible |-> x.feasible,
     rec |-> [NoRun EXCEPT
                !.handler = "execute", !.ran = TRUE,
                !.returned = x.raised = "none" /\ ~x.hung,
                !.armed = x.armed, !.timeout = timeout,
                !.result = IF x.raised = "none" /\ ~x.hung THEN x.result ELSE NoResult,
                !.signal = e, !.fd1 = x.fd1,
                !.probe = IF x.raised = "none" /\ ~x.hung THEN mem ELSE NoProbe]]

handle_execute_honouring(id, params, n, f, e, m, hasAlarm) ==
    IF ~Truthy(Get(params.code))
    THEN invalid_code(id, "Missing required parameter: code", n, f, e)
    ELSE IF ~IsStr(Get(params.code))
    THEN invalid_code(id, "Parameter 'code' must be a string", n, f, e)
    ELSE [execute_and_respond(id, EffectiveTimeout(params), e,
            execute_code(Get(params.code).s, n, EffectiveTimeout(params), e, hasAlarm),
            get_memory_usage(m))
          EXCEPT !.flag = f, !.namespace = IF f THEN n ELSE @]

handle_execute(id, params, n, f, e, m, hasAlarm) ==
    IF ~Truthy(Get(params.code))
    THEN invalid_code(id, "Missing required parameter: code", n, f, e)
    ELSE IF ~IsStr(Get(params.code))
    THEN invalid_code(id, "Parameter 'code' must be a string", n, f, e)
    ELSE execute_and_respond(id, EffectiveTimeout(params), e,
            execute_code(Get(params.code).s, n, EffectiveTimeout(params), e, hasAlarm),
            get_memory_usage(m))

handle_interrupt(id, params, n, f, e) ==
    [out |-> <<send_response(id, state_interrupt.result, None)>>,
     namespace |-> n, flag |-> state_interrupt.interrupt_flag,
     raised |-> "none", hung |-> FALSE, feasible |-> e = NoSignal,
     rec |-> Handled("interrupt")]

\* x is what _state.reset() did
reset_and_respond(id, e, x, mem) ==
    [out |-> IF x.raised = "none"
             THEN <<send_response(id, x.result, None)>> ELSE <<>>,
     namespace |-> x.namespace, flag |-> x.interrupt_flag,
     raised |-> x.raised, hung |-> FALSE, feasible |-> e = NoSignal,
     rec |-> [Handled("reset") EXCEPT !.probe = mem]]

handle_reset_keeping_flag(id, params, n, f, e, m) ==
    [reset_and_respond(id, e, state_reset(get_memory_usage(m)), get_memory_usage(m))
        EXCEPT !.flag = f]

handle_reset(id, params, n, f, e, m) ==
    reset_and_respond(id, e, state_reset(get_memory_usage(m)), get_memory_usage(m))

\* x is what _state.get_state() did
get_state_and_respond_clearing(id, n, f, e, x, mem) ==
    [out |-> IF x.raised = "none"
             THEN <<send_response(id, x.result, None)>> ELSE <<>>,
     namespace |-> n, flag |-> FALSE,
     raised |-> x.raised, hung |-> FALSE, feasible |-> e = NoSignal,
     rec |-> [Handled("get_state") EXCEPT !.probe = mem]]

get_state_and_respond(id, n, f, e, x, mem) ==
    [out |-> IF x.raised = "none"
             THEN <<send_response(id, x.result, None)>> ELSE <<>>,
     namespace |-> n, flag |-> f,
     raised |-> x.raised, hung |-> FALSE, feasible |-> e = NoSignal,
     rec |-> [Handled("get_state") EXCEPT !.probe = mem]]

handle_get_state(id, params, n, f, e, m) ==
    get_state_and_respond(id, n, f, e, state_get_state(n, get_memory_usage(m)),
                          get_memory_usage(m))

handle_ping(id, params, n, f, e) ==
    [out |-> <<send_response(id, [status |-> Str("ok"),
                                  timestamp |-> Str("<iso-8601>")], None)>>,
     namespace |-> n, flag |-> f,
     raised |-> "none", hung |-> FALSE, feasible |-> e = NoSignal,
     rec |-> Handled("ping")]

\* the method registry
HANDLERS == {"execute", "interrupt", "reset", "get_state", "ping"}

Dispatch(method, id, params, n, f, e, m, hasAlarm) ==
    CASE method = "execute" -> handle_execute(id, params, n, f, e, m, hasAlarm)
      [] method = "interrupt" -> handle_interrupt(id, params, n, f, e)
      [] method = "reset" -> handle_reset(id, params, n, f, e, m)
      [] method = "get_state" -> handle_get_state(id, params, n, f, e, m)
      [] method = "ping" -> handle_ping(id, params, n, f, e)

-----------------------------------------------------------------------------
(* Dispatcher.  A line is what json.loads makes of it: json is "invalid"    *)
(* (JSONDecodeError), "value" (a list or scalar) or "object", and for an    *)
(* object the four members the dispatcher reads (Missing when absent).      *)

EmptyParams == [t |-> "obj", code |-> Missing, timeout |-> Missing]
AbsentParams == [t |-> "absent", code |-> Missing, timeout |-> Missing]
StringParams == [t |-> "str", code |-> Missing, timeout |-> Missing]

\* request.get("jsonrpc") != JSON_RPC_VERSION (line 564), negated
version_ok_if_present(request) ==
    request.jsonrpc.t = "absent" \/ Get(request.jsonrpc) = Str(JSON_RPC_VERSION)

version_ok(request) == Get(request.jsonrpc) = Str(JSON_RPC_VERSION)

\* the Method-Not-Found error (line 599)
method_not_found_unnamed(method) ==
    make_error(ERROR_METHOD_NOT_FOUND, <<"Method not found">>, None)

method_not_found(method) ==
    make_error(ERROR_METHOD_NOT_FOUND, <<"Method not found: ", method>>, None)

\* a validation failure: one error response, nothing else touched
reject(id, error, n, f, e) ==
    [out |-> <<send_response(id, None, error)>>,
     namespace |-> n, flag |-> f, raised |-> "none", hung |-> FALSE,
     feasible |-> e = NoSignal, rec |-> NoRun]

\* the catch-all (lines 606-613) around what the handler h did
catch_all_silent(request_id, h) ==
    IF IsException(h.raised) THEN [h EXCEPT !.raised = "none"] ELSE h

catch_all_execution(request_id, h) ==
    IF IsException(h.raised)
    THEN [h EXCEPT
            !.out = h.out \o
                <<send_response(request_id, None,
                    make_error(ERROR_EXECUTION,
                               <<"Internal error: ", h.raised>>,
                               Str("Traceback (most recent call last): ...")))>>,
            !.raised = "none"]
    ELSE h

catch_all(request_id, h) ==
    IF IsException(h.raised)
    THEN [h EXCEPT
            !.out = h.out \o
                <<send_response(request_id, None,
                    make_error(ERROR_INTERNAL,
                               <<"Internal error: ", h.raised>>,
                               Str("Traceback (most recent call last): ...")))>>,
            !.raised = "none"]
    ELSE h

\* request.get("params", {})
ParamsOf(l) == IF l.params.t = "absent" THEN EmptyParams ELSE l.params

process_request(l, n, f, e, m, hasAlarm) ==
    IF l.json = "invalid"
    THEN reject(None, make_error(ERROR_PARSE,
                                 <<"Parse error: ", "<JSONDecodeError>">>, None),
                n, f, e)
    ELSE IF l.json # "object"
    THEN reject(None, make_error(ERROR_INVALID_REQUEST,
                                 <<"Request must be a JSON object">>, None),
                n, f, e)
    ELSE IF ~version_ok(l)
    THEN reject(Get(l.id),
                make_error(ERROR_INVALID_REQUEST,
                           <<"Invalid jsonrpc version, expected '",
                             JSON_RPC_VERSION, "'">>, None),
                n, f, e)
    ELSE IF ~Truthy(Get(l.method)) \/ ~IsStr(Get(l.method))
    THEN reject(Get(l.id),
                make_error(ERROR_INVALID_REQUEST,
                           <<"Missing or invalid 'method'">>, None),
                n, f, e)
    ELSE IF ParamsOf(l).t # "obj"
    THEN reject(Get(l.id),
                make_error(ERROR_INVALID_PARAMS,
                           <<"Parameter 'params' must be an object">>, None),
                n, f, e)
    ELSE IF Get(l.method).s \notin HANDLERS
    THEN reject(Get(l.id), method_not_found(Get(l.method).s), n, f, e)
    ELSE catch_all(Get(l.id),
                   Dispatch(Get(l.method).s, Get(l.id), ParamsOf(l), n, f, e, m, hasAlarm))

-----------------------------------------------------------------------------
(* The lines a client may send *)

MaxTimeoutHalves == 4

Ids == {Missing, None, Str("req_1"), Num(0)}

Versions == {Missing, Str("2.0"), Str("1.0")}

Methods == {Missing, None, Num(50), Str(""), Str("nonexistent_method"), Str("exec")}
           \cup {Str(m) : m \in HANDLERS}

CodeValues == {Missing, None, Str(""), Num(0), Num(1230), List(0)}
              \cup {Str(c) : c \in Codes}

TimeoutValues == {Missing, None, Bool(TRUE), Bool(FALSE), Str("5"), Num(0), Num(-10)}
                 \cup {Num(5 * k) : k \in 1..MaxTimeoutHalves}

NoLine == [json |-> "none", id |-> Missing, jsonrpc |-> Missing,
           method |-> Missing, params |-> AbsentParams]

BlankLine == [NoLine EXCEPT !.json = "blank"]

Lines ==
    {[NoLine EXCEPT !.json = "invalid"], [NoLine EXCEPT !.json = "value"]}
    \cup [json : {"object"}, id : Ids, jsonrpc : Versions, method : Methods,
          params : {AbsentParams, StringParams, EmptyParams}]
    \cup [json : {"object"}, id : {Missing, Str("req_1")}, jsonrpc : {Str("2.0")},
          method : {Str("execute")},
          params : [t : {"obj"}, code : CodeValues, timeout : TimeoutValues]]

-----------------------------------------------------------------------------
(* Transport loop (run_stdin_mode) *)

NoArgs == [id |-> None, result |-> None, error |-> None]

\* no socket server: the bridge reads standard input
NoServer == [listening |-> FALSE, path |-> FALSE, conn |-> FALSE,
             accepted |-> 0, requests |-> 0, signalled |-> FALSE,
             status |-> "running", why |-> ""]

\* no caller besides the main thread
NoThreads == [pc |-> <<>>, lock |-> 0]

Init ==
    /\ ns = initialize_namespace
    /\ flag = FALSE
    /\ sigalrm \in BOOLEAN
    /\ loop = "read"
    /\ line = NoLine
    /\ out = <<>>
    /\ rec = NoRun
    /\ args = NoArgs
    /\ ret = <<>>
    /\ srv = NoServer
    /\ threads = NoThreads

\* how the loop goes on after process_request did r for line l
AfterRequest(l, r) ==
    /\ r.feasible
    /\ ns' = r.namespace
    /\ flag' = r.flag
    /\ line' = l
    /\ out' = r.out
    /\ rec' = [r.rec EXCEPT !.before = [namespace |-> ns, flag |-> flag]]
    /\ loop' = CASE r.hung -> "hung"
                 [] r.raised = "none" -> "handled"
                 [] r.raised = "KeyboardInterrupt" -> "interrupted"
                 [] IsException(r.raised) -> "fatal"
                 [] OTHER -> "exited"

\* one iteration: a non-blank line is read and handed to process_request
StdinLine ==
    /\ loop = "read"
    /\ \E l \in Lines, e \in Signals, m \in Probes :
        AfterRequest(l, process_request(l, ns, flag, e, m, sigalrm))
    /\ UNCHANGED <<sigalrm, args, ret, srv, threads>>

\* a blank line is skipped
StdinBlank ==
    /\ loop = "read"
    /\ line' = BlankLine
    /\ out' = <<>>
    /\ rec' = NoRun
    /\ UNCHANGED <<ns, flag, sigalrm, loop, args, ret, srv, threads>>

\* process_request returned: the for loop takes its next line
StdinNext ==
    /\ loop = "handled"
    /\ loop' = "read"
    /\ line' = NoLine
    /\ out' = <<>>
    /\ rec' = NoRun
    /\ UNCHANGED <<ns, flag, sigalrm, args, ret, srv, threads>>

\* end of input: the for loop ends
StdinEOF ==
    /\ loop = "read"
    /\ loop' = "eof"
    /\ UNCHANGED <<ns, flag, sigalrm, line, out, rec, args, ret, srv, threads>>

\* SIGINT while blocked reading: except KeyboardInterrupt
StdinInterrupt ==
    /\ loop = "read"
    /\ loop' = "interrupted"
    /\ UNCHANGED <<ns, flag, sigalrm, line, out, rec, args, ret, srv, threads>>

\* reading sys.stdin fails: except Exception, sys.exit(1)
StdinError ==
    /\ loop = "read"
    /\ loop' = "fatal"
    /\ UNCHANGED <<ns, flag, sigalrm, line, out, rec, args, ret, srv, threads>>

Next ==
    \/ StdinLine
    \/ StdinBlank
    \/ StdinNext
    \/ StdinEOF
    \/ StdinInterrupt
    \/ StdinError

Spec == Init /\ [][Next]_vars

-----------------------------------------------------------------------------
(* A longer session on one context: the five methods, code that reads,     *)
(* rebinds and deletes names or raises after binding one, requests that    *)
(* are rejected, and runs cut short by SIGINT or by the alarm.             *)

SessionRequest(method, params) ==
    [json |-> "object", id |-> Str("req_1"), jsonrpc |-> Str("2.0"),
     method |-> Str(method), params |-> params]

SessionLines ==
    {SessionRequest(m, EmptyParams) : m \in HANDLERS}
    \cup {SessionRequest("execute",
                          [t |-> "obj", code |-> Str(c), timeout |-> Missing]) :
            c \in SessionCodes}
    \cup {SessionRequest("nonexistent_method", AbsentParams),
          SessionRequest("ping", StringParams),
          [NoLine EXCEPT !.json = "invalid"]}

SessionSignals ==
    {NoSignal} \cup [sig : {"INT", "ALRM"}, at : {"run"}, cut : 0..MaxProgramLen]

SessionLine ==
    /\ loop = "read"
    /\ \E l \in SessionLines, e \in SessionSignals, m \in Probes :
        AfterRequest(l, process_request(l, ns, flag, e, m, sigalrm))
    /\ UNCHANGED <<sigalrm, args, ret, srv, threads>>

NextSession ==
    \/ SessionLine
    \/ StdinNext

SpecSession == Init /\ [][NextSession]_vars

-----------------------------------------------------------------------------
(* Socket transport (run_socket_server, handle_socket_connection).  loop is *)
(* "accept" (blocked in server.accept()), "serving" (reading the open       *)
(* connection), "hung" (inside code that never ends) or "exited".  SIGTERM  *)
(* and SIGINT both run shutdown_handler, which closes the listening socket, *)
(* removes its path and raises SystemExit(0) at whatever statement is       *)
(* executing.                                                               *)

MaxConnections == 3
MaxRequests == 2

SocketCodes == {CodeAssign, CodeDouble, CodeExit, CodeHang, CodeSwallow}

SocketLines ==
    {SessionRequest(m, EmptyParams) : m \in {"interrupt", "get_state", "ping"}}
    \cup {SessionRequest("execute",
                          [t |-> "obj", code |-> Str(c), timeout |-> Missing]) :
            c \in SocketCodes}
    \cup {[NoLine EXCEPT !.json = "invalid"]}

\* the termination signal, or the alarm, arriving while code runs
SocketSignals ==
    {NoSignal, [sig |-> "ALRM", at |-> "run", cut |-> 0]}
    \cup [sig : {"TERM"}, at : {"run"}, cut : 0..1]

\* lines 628-642: the path is bound and listened on
InitSocket ==
    /\ ns = initialize_namespace
    /\ flag = FALSE
    /\ sigalrm \in BOOLEAN
    /\ loop = "accept"
    /\ line = NoLine
    /\ out = <<>>
    /\ rec = NoRun
    /\ args = NoArgs
    /\ ret = <<>>
    /\ srv = [NoServer EXCEPT !.listening = TRUE, !.path = TRUE]
    /\ threads = NoThreads

\* shutdown_handler (lines 644-650) up to its sys.exit(0)
shutdown_handler(s) ==
    [s EXCEPT !.listening = FALSE, !.path = FALSE, !.signalled = TRUE]

\* SystemExit, or the return of run_socket_server, reaches the top: the
\* finally blocks (lines 683-687, 662-665) close the connection and the
\* listening socket and remove the path; the exit status is 0
exit_server(s, why) ==
    [s EXCEPT !.listening = FALSE, !.path = FALSE, !.conn = FALSE,
              !.status = "0", !.why = why]

\* conn, _ = server.accept(); handle_socket_connection(conn) starts
SocketAccept ==
    /\ loop = "accept"
    /\ srv.accepted < MaxConnections
    /\ loop' = "serving"
    /\ srv' = [srv EXCEPT !.conn = TRUE, !.accepted = @ + 1, !.requests = 0]
    /\ line' = NoLine
    /\ out' = <<>>
    /\ rec' = NoRun
    /\ UNCHANGED <<ns, flag, sigalrm, args, ret, threads>>

\* accept() fails: except Exception (line 659), finally, return
SocketAcceptError ==
    /\ loop = "accept"
    /\ loop' = "exited"
    /\ srv' = exit_server(srv, "accept")
    /\ UNCHANGED <<ns, flag, sigalrm, line, out, rec, args, ret, threads>>

\* how the connection goes on after process_request did r for line l while
\* signal e arrived
AfterSocketRequest(l, e, r) ==
    /\ r.feasible
    /\ ns' = r.namespace
    /\ flag' = r.flag
    /\ line' = l
    /\ out' = r.out
    /\ rec' = [r.rec EXCEPT !.before = [namespace |-> ns, flag |-> flag]]
    /\ loop' = CASE r.hung -> "hung"
                 [] r.raised = "none" -> "serving"
                 [] OTHER -> "exited"
    /\ srv' = CASE r.hung /\ e.sig = "TERM" ->
                     shutdown_handler([srv EXCEPT !.requests = @ + 1])
                [] r.hung \/ r.raised = "none" ->
                     [srv EXCEPT !.requests = @ + 1]
                [] e.sig = "TERM" ->
                     exit_server(shutdown_handler([srv EXCEPT !.requests = @ + 1]),
                                 "signal")
                [] OTHER ->
                     exit_server([srv EXCEPT !.requests = @ + 1], "escaped")

\* one iteration of the loop of handle_socket_connection (lines 675-679)
SocketLine ==
    /\ loop = "serving"
    /\ srv.requests < MaxRequests
    /\ \E l \in SocketLines, e \in SocketSignals, m \in Probes :
        AfterSocketRequest(l, e, process_request(l, ns, flag, e, m, sigalrm))
    /\ UNCHANGED <<sigalrm, args, ret, threads>>

\* the connection's input ends, or reading it fails (except Exception, line
\* 680): conn.close() in the finally block, and back to accept
SocketEnd ==
    /\ loop = "serving"
    /\ loop' = "accept"
    /\ srv' = [srv EXCEPT !.conn = FALSE]
    /\ UNCHANGED <<ns, flag, sigalrm, line, out, rec, args, ret, threads>>

\* the code that the hung request is running catches BaseException
RunningSwallows ==
    /\ loop = "hung"
    /\ Program(Get(line.params.code).s).end = "swallow"

\* SIGTERM or SIGINT while blocked in accept or in reading the connection,
\* or while the code of a hung request runs
SocketTerminate ==
    /\ loop \in {"accept", "serving", "hung"}
    /\ loop' = IF RunningSwallows THEN "hung" ELSE "exited"
    /\ srv' = IF RunningSwallows THEN shutdown_handler(srv)
              ELSE exit_server(shutdown_handler(srv), "signal")
    /\ UNCHANGED <<ns, flag, sigalrm, line, out, rec, args, ret, threads>>

NextSocket ==
    \/ SocketAccept
    \/ SocketAcceptError
    \/ SocketLine
    \/ SocketEnd
    \/ SocketTerminate

SpecSocket == InitSocket /\ [][NextSocket]_vars

\* the signal is delivered and the interpreter goes on running
SpecSocketLive == SpecSocket /\ WF_vars(NextSocket)

-----------------------------------------------------------------------------
(* The context's operations called from concurrent callers, statement by    *)
(* statement: reset (lines 267-278), handle_execute's use of the context    *)
(* (lines 448-461) and get_state (lines 280-293).  threads.pc is where each *)
(* caller is, threads.lock the holder of _execution_lock (0: free), and     *)
(* threads.own[c] whether the dict caller c passed to exec is still the     *)
(* context's dict (_initialize_namespace binds a new one).                  *)

MaxCallers == 2

Callers == 1..MaxCallers

EmptyDict == [k \in {} |-> 0]

InitLock ==
    /\ ns = initialize_namespace
    /\ flag = FALSE
    /\ sigalrm \in BOOLEAN
    /\ loop = "threads"
    /\ line = NoLine
    /\ out = <<>>
    /\ rec = NoRun
    /\ args = NoArgs
    /\ ret = <<>>
    /\ srv = NoServer
    /\ threads = [pc |-> [c \in Callers |-> "idle"], lock |-> 0,
                  own |-> [c \in Callers |-> TRUE]]

\* with self._execution_lock: (line 269)
ResetAcquire ==
    \E c \in Callers :
        /\ threads.pc[c] = "idle"
        /\ threads.lock = 0
        /\ threads' = [threads EXCEPT !.pc[c] = "reset_locked", !.lock = c]
        /\ UNCHANGED <<ns, flag>>
        /\ UNCHANGED <<sigalrm, loop, line, out, rec, args, ret, srv>>

\* self._namespace.clear() (line 270)
ResetClear ==
    \E c \in Callers :
        /\ threads.pc[c] = "reset_locked"
        /\ ns' = EmptyDict
        /\ threads' = [threads EXCEPT !.pc[c] = "reset_cleared"]
        /\ UNCHANGED flag
        /\ UNCHANGED <<sigalrm, loop, line, out, rec, args, ret, srv>>

\* self._initialize_namespace() (line 271): a new dict is bound
ResetSeed ==
    \E c \in Callers :
        /\ threads.pc[c] = "reset_cleared"
        /\ ns' = initialize_namespace
        /\ threads' = [threads EXCEPT !.pc[c] = "reset_seeded",
                                      !.own = [d \in Callers |-> FALSE]]
        /\ UNCHANGED flag
        /\ UNCHANGED <<sigalrm, loop, line, out, rec, args, ret, srv>>

\* self._interrupt_flag.clear(), gc.collect(), and the lock is released
ResetRelease ==
    \E c \in Callers :
        /\ threads.pc[c] = "reset_seeded"
        /\ flag' = FALSE
        /\ threads' = [threads EXCEPT !.pc[c] = "idle", !.lock = 0]
        /\ UNCHANGED ns
        /\ UNCHANGED <<sigalrm, loop, line, out, rec, args, ret, srv>>

\* _state.interrupt_flag.clear() and the call of execute_code with
\* namespace=_state.namespace (lines 449-461); the lock is not taken
ExecStart ==
    \E c \in Callers :
        /\ threads.pc[c] = "idle"
        /\ flag' = FALSE
        /\ threads' = [threads EXCEPT !.pc[c] = "exec_running", !.own[c] = TRUE]
        /\ UNCHANGED ns
        /\ UNCHANGED <<sigalrm, loop, line, out, rec, args, ret, srv>>

\* exec(compiled, namespace) runs "x = 10" on the dict it was given
ExecStep ==
    \E c \in Callers :
        /\ threads.pc[c] = "exec_running"
        /\ ns' = IF threads.own[c]
                 THEN NamespaceAfter(ExecGlobals(ns), Program(CodeAssign).steps, 1)
                 ELSE ns
        /\ threads' = [threads EXCEPT !.pc[c] = "exec_ran"]
        /\ UNCHANGED flag
        /\ UNCHANGED <<sigalrm, loop, line, out, rec, args, ret, srv>>

\* execute_code returns
ExecReturn ==
    \E c \in Callers :
        /\ threads.pc[c] = "exec_ran"
        /\ threads' = [threads EXCEPT !.pc[c] = "idle"]
        /\ UNCHANGED <<ns, flag>>
        /\ UNCHANGED <<sigalrm, loop, line, out, rec, args, ret, srv>>

\* get_state starts iterating self._namespace.keys() (lines 283-287); the
\* lock is not taken
GetStateRead ==
    \E c \in Callers :
        /\ threads.pc[c] = "idle"
        /\ threads' = [threads EXCEPT !.pc[c] = "get_state_reading"]
        /\ UNCHANGED <<ns, flag>>
        /\ UNCHANGED <<sigalrm, loop, line, out, rec, args, ret, srv>>

\* get_state returns the names it found
GetStateReturn ==
    \E c \in Callers :
        /\ threads.pc[c] = "get_state_reading"
        /\ threads' = [threads EXCEPT !.pc[c] = "idle"]
        /\ ret' = state_get_state(ns, NoProbe).result.variables
        /\ UNCHANGED <<ns, flag>>
        /\ UNCHANGED <<sigalrm, loop, line, out, rec, args, srv>>

\* an interrupt request from another caller sets the flag (line 297)
ContextInterrupt ==
    /\ flag' = state_interrupt.interrupt_flag
    /\ UNCHANGED <<ns, threads, sigalrm, loop, line, out, rec, args, ret, srv>>

NextLock ==
    \/ ResetAcquire
    \/ ResetClear
    \/ ResetSeed
    \/ ResetRelease
    \/ ExecStart
    \/ ExecStep
    \/ ExecReturn
    \/ GetStateRead
    \/ GetStateReturn
    \/ ContextInterrupt

SpecLock == InitLock /\ [][NextLock]_vars

-----------------------------------------------------------------------------
(* send_response called directly, with every combination of arguments *)

ArgIds == {None, Str("req_1"), Str(""), Num(0), Bool(FALSE)}

ArgResults == {None, Dict(0), state_interrupt.result, state_reset(NoProbe).result,
               state_get_state(initialize_namespace, NoProbe).result}

ArgErrors == {None, Dict(0),
              make_error(ERROR_INVALID_REQUEST, <<"Request must be a JSON object">>, None),
              make_error(ERROR_INTERNAL, <<"Internal error: ", "ValueError">>,
                         Str("Traceback (most recent call last): ...")),
              make_error(ERROR_PARSE, <<>>, None)}

InitSend ==
    /\ ns = initialize_namespace
    /\ flag = FALSE
    /\ sigalrm \in BOOLEAN
    /\ loop = "send"
    /\ line = NoLine
    /\ out = <<>>
    /\ rec = NoRun
    /\ args \in [id : ArgIds, result : ArgResults, error : ArgErrors]
    /\ ret = <<>>
    /\ srv = NoServer
    /\ threads = NoThreads

SendResponse ==
    /\ loop = "send"
    /\ out = <<>>
    /\ out' = <<send_response(args.id, args.result, args.error)>>
    /\ UNCHANGED <<ns, flag, sigalrm, loop, line, rec, args, ret, srv, threads>>

NextSend == SendResponse

SpecSend == InitSend /\ [][NextSend]_vars

-----------------------------------------------------------------------------
(* parse_markers called directly, on texts of a few lines *)

MaxTextLines == 3

\* the lines a text is made of: blank, spaces only, plain, tag only, tag
\* and content, indented tag with trailing space, tag with subtype, lower
\* case tag, tag not at the start, tag with digits and no space after it
TextLines ==
    {<<>>,
     <<" ">>,
     <<"x">>,
     <<"[", "A", "]">>,
     <<"[", "A", "]", " ", "x">>,
     <<" ", "\t", "[", "S", "T", "E", "P", "]", " ", "g", "o", " ">>,
     <<"[", "M", "E", "T", "R", "I", "C", ":", "a", "c", "c", "]", " ", "1">>,
     <<"[", "a", "]", " ", "x">>,
     <<"x", " ", "[", "A", "]">>,
     <<"[", "B", "_", "2", "]", "y">>}

\* the texts of exactly k lines
RECURSIVE TextsOf(_)
TextsOf(k) ==
    IF k = 1 THEN TextLines
    ELSE {s \o <<"\n">> \o l : s \in TextsOf(k - 1), l \in TextLines}

\* with and without a newline at the end
Texts ==
    LET whole == UNION {TextsOf(k) : k \in 1..MaxTextLines}
    IN  whole \cup {s \o <<"\n">> : s \in whole}

InitMarkers ==
    /\ ns = initialize_namespace
    /\ flag = FALSE
    /\ sigalrm \in BOOLEAN
    /\ loop = "parse"
    /\ line = NoLine
    /\ out = <<>>
    /\ rec = NoRun
    /\ args \in [text : Texts]
    /\ ret = <<>>
    /\ srv = NoServer
    /\ threads = NoThreads

ParseMarkers ==
    /\ loop = "parse"
    /\ loop' = "parsed"
    /\ ret' = parse_markers(args.text)
    /\ UNCHANGED <<ns, flag, sigalrm, line, out, rec, args, srv, threads>>

NextMarkers == ParseMarkers

SpecMarkers == InitMarkers /\ [][NextMarkers]_vars

-----------------------------------------------------------------------------
(* Properties *)

\* a non-blank line has been handed to process_request in this iteration
Answered == line.json \in {"invalid", "value", "object"}

\* the response is an error response with this code
IsError(response, code) ==
    "error" \in DOMAIN response /\ response["error"]["code"] = code

\* the numbered checks of the validation order, read off the line itself
Check1Fails(l) == l.json = "invalid"
Check2Fails(l) == l.json # "object"
Check3Fails(l) == l.jsonrpc.t = "absent" \/ l.jsonrpc # Str("2.0")
Check4Fails(l) == l.method.t # "str"
Check4FailsOrEmpty(l) == l.method.t # "str" \/ l.method.s = ""
Check5Fails(l) == l.params.t \notin {"absent", "obj"}
Check6Fails(l) == l.method.s \notin HANDLERS

\* the code of the lowest-numbered failing check, 0 when none fails;
\* check4 says whether check (4) fails
FirstFailure(l, check4) ==
    IF Check1Fails(l) THEN ERROR_PARSE
    ELSE IF Check2Fails(l) THEN ERROR_INVALID_REQUEST
    ELSE IF Check3Fails(l) THEN ERROR_INVALID_REQUEST
    ELSE IF check4 THEN ERROR_INVALID_REQUEST
    ELSE IF Check5Fails(l) THEN ERROR_INVALID_PARAMS
    ELSE IF Check6Fails(l) THEN ERROR_METHOD_NOT_FOUND
    ELSE 0

\* the line was rejected with this code and no handler ran
RejectedWith(code) ==
    /\ loop = "handled"
    /\ Len(out) = 1
    /\ IsError(out[1], code)
    /\ rec.handler = ""

\* C1 as claimed: the error reported is that of the lowest-numbered failing
\* check among (1) unparseable, (2) not an object, (3) jsonrpc missing or not
\* "2.0", (4) method missing or not a string, (5) params present and not an
\* object, (6) method not registered; and no handler is run.
C1_Original ==
    (Answered /\ FirstFailure(line, Check4Fails(line)) # 0)
        => RejectedWith(FirstFailure(line, Check4Fails(line)))

\* C1, amended: the same order, where check (4) also fails for a method that
\* is the empty string; a line failing no check reaches its handler.
C1_ValidationOrder ==
    Answered =>
        IF FirstFailure(line, Check4FailsOrEmpty(line)) # 0
        THEN RejectedWith(FirstFailure(line, Check4FailsOrEmpty(line)))
        ELSE rec.handler = line.method.s

\* a request with two defects, (5) and (6), answered with the code of (5)
C1_Witness ==
    /\ Answered
    /\ line.json = "object"
    /\ ~Check3Fails(line)
    /\ ~Check4FailsOrEmpty(line)
    /\ Check5Fails(line)
    /\ Check6Fails(line)
    /\ RejectedWith(ERROR_INVALID_PARAMS)

\* an object with jsonrpc "2.0" and params absent or an object
WellFormedEnvelope(l) ==
    /\ l.json = "object"
    /\ l.jsonrpc = Str("2.0")
    /\ l.params.t \in {"absent", "obj"}

\* C2 as claimed: a well-formed request whose method is any string outside
\* the registry is answered Method-Not-Found, the message holding the method.
C2_Original ==
    (Answered /\ WellFormedEnvelope(line) /\ line.method.t = "str"
        /\ line.method.s \notin HANDLERS)
    => /\ RejectedWith(ERROR_METHOD_NOT_FOUND)
       /\ line.method.s \in Range(out[1]["error"]["message"])

\* C2, amended: the same for any non-empty string outside the registry.
C2_UnknownMethod ==
    (Answered /\ WellFormedEnvelope(line) /\ line.method.t = "str"
        /\ line.method.s # "" /\ line.method.s \notin HANDLERS)
    => /\ RejectedWith(ERROR_METHOD_NOT_FOUND)
       /\ line.method.s \in Range(out[1]["error"]["message"])

C2_Witness ==
    /\ Answered
    /\ WellFormedEnvelope(line)
    /\ line.method = Str("nonexistent_method")
    /\ RejectedWith(ERROR_METHOD_NOT_FOUND)
    /\ "nonexistent_method" \in Range(out[1]["error"]["message"])

\* C3: every non-blank line handed to process_request is answered with
\* exactly one response, whatever the executed code does (stated here even
\* without any signal arriving, and leaving aside a run that never ends).
C3_ExactlyOneResponse ==
    (Answered /\ loop # "hung" /\ rec.signal = NoSignal) => Len(out) = 1

\* C4: every response built by send_response holds exactly one of the keys
\* result and error, for every combination of id, result and error.
C4_ResultXorError ==
    \A i \in 1..Len(out) :
        ("result" \in DOMAIN out[i]) # ("error" \in DOMAIN out[i])

\* a success whose result is None: the result key is present all the same
C4_Witness ==
    /\ loop = "send"
    /\ Len(out) = 1
    /\ IsNone(args.result)
    /\ IsNone(args.error)
    /\ "result" \in DOMAIN out[1]

\* C5: a response carries the request's id whenever the request parsed as an
\* object, and omits the id key exactly when it did not.
C5_IdEchoed ==
    Answered =>
        \A i \in 1..Len(out) :
            /\ line.json = "object" => ("id" \in DOMAIN out[i] /\ out[i]["id"] = line.id)
            /\ "id" \notin DOMAIN out[i] <=> line.json # "object"

ProtocolErrorCodes == {ERROR_PARSE, ERROR_INVALID_REQUEST, ERROR_INVALID_PARAMS,
                       ERROR_METHOD_NOT_FOUND}

\* C6: a request answered with a protocol error (Parse, Invalid-Request,
\* Invalid-Params, Method-Not-Found) leaves the namespace and the interrupt
\* flag as they were, and no code is executed.
C6_ProtocolErrorFrame ==
    [][(/\ loop = "read"
        /\ Len(out') = 1
        /\ "error" \in DOMAIN out'[1]
        /\ out'[1]["error"]["code"] \in ProtocolErrorCodes)
       => (ns' = ns /\ flag' = flag /\ ~rec'.ran)]_vars

\* an execute without code rejected while the flag is set and x is bound
C6_Witness ==
    /\ Answered
    /\ line.method = Str("execute")
    /\ loop = "handled"
    /\ Len(out) = 1
    /\ IsError(out[1], ERROR_INVALID_PARAMS)
    /\ rec.handler = "execute"
    /\ flag
    /\ "x" \in DOMAIN ns

\* C7: an execute request with valid params is never answered with an
\* RPC-level error object, wherever the timer expires during the run (the
\* memory probe working).
C7_NoRpcError ==
    (Answered /\ rec.ran /\ rec.probe.raised = "none")
        => \A i \in 1..Len(out) : "error" \notin DOMAIN out[i]

\* C8: after any request the transport loop goes on; it ends only on end of
\* input, a shutdown signal or a transport failure.
C8_LoopGoesOn ==
    (Answered /\ rec.signal.sig # "INT") => loop \in {"handled", "hung"}

\* C9: a result returned by execute_code has success true and no exception
\* fields, or success false and all three exception fields.
C9_ResultConsistent ==
    rec.returned =>
        \/ /\ rec.result.success
           /\ IsNone(rec.result.exception)
           /\ IsNone(rec.result.exception_type)
           /\ IsNone(rec.result.traceback)
        \/ /\ ~rec.result.success
           /\ ~IsNone(rec.result.exception)
           /\ ~IsNone(rec.result.exception_type)
           /\ ~IsNone(rec.result.traceback)

\* C10: with the alarm timer available, an execute whose timeout is a
\* positive number runs with an armed timer and so does not run for ever.
C10_PositiveDeadlineArmed ==
    (Answered /\ rec.ran /\ sigalrm
        /\ line.params.timeout.t = "num" /\ line.params.timeout.n > 0)
    => (rec.armed > 0 /\ loop # "hung")

\* C11: handle_execute uses params.timeout as the deadline only when it is a
\* positive number; for every other value (absent, null, boolean, string,
\* zero, negative) the run gets the default of 300 seconds.
C11_TimeoutFallback ==
    (Answered /\ rec.ran) =>
        rec.timeout = IF line.params.timeout.t = "num" /\ line.params.timeout.n > 0
                      THEN line.params.timeout
                      ELSE Seconds(DEFAULT_TIMEOUT)

-----------------------------------------------------------------------------
(* The execution context over a session (SpecSession).  rec.before is the  *)
(* context as it was when the line was read.                               *)

\* the request was answered with a result
Succeeded == Len(out) = 1 /\ "result" \in DOMAIN out[1]

\* C12: after reset, from any state, the namespace holds exactly the seed
\* bindings and the interrupt flag is clear; a get_state issued on that
\* context reports variable_count 0 and no variables.
C12_ResetIsTotal ==
    /\ (Answered /\ rec.handler = "reset") =>
          /\ DOMAIN ns = {"__name__", "__doc__", "clean_memory", "get_memory"}
          /\ ns["__name__"] = SeedNameValue
          /\ ns["__doc__"] = SeedDocValue
          /\ ns["clean_memory"] = CleanMemoryFn
          /\ ns["get_memory"] = GetMemoryFn
          /\ ~flag
    /\ (Answered /\ rec.handler = "get_state" /\ Succeeded
            /\ rec.before.namespace = initialize_namespace) =>
          /\ out[1]["result"].variable_count = 0
          /\ out[1]["result"].variables = {}

\* reset ran on a context with a user binding, a helper rebound, a helper
\* deleted and the interrupt flag set
C12_Witness ==
    /\ rec.handler = "reset"
    /\ rec.before.flag
    /\ "x" \in DOMAIN rec.before.namespace
    /\ rec.before.namespace["clean_memory"] # CleanMemoryFn
    /\ "get_memory" \notin DOMAIN rec.before.namespace
    /\ ns = initialize_namespace
    /\ ~flag

\* C13: get_state reports exactly the namespace keys that neither start
\* with an underscore nor are clean_memory or get_memory, and
\* variable_count is their number, also after code rebinds such a name.
C13_UserVariablesOnly ==
    (Answered /\ rec.handler = "get_state" /\ Succeeded) =>
        /\ out[1]["result"].variables =
              DOMAIN ns \ {"__name__", "__doc__", "__builtins__", "_tmp",
                           "clean_memory", "get_memory"}
        /\ out[1]["result"].variable_count =
              Cardinality(out[1]["result"].variables)

\* get_state on a context where code rebound clean_memory and bound _tmp
C13_Witness ==
    /\ rec.handler = "get_state"
    /\ Succeeded
    /\ "_tmp" \in DOMAIN ns
    /\ "clean_memory" \in DOMAIN ns
    /\ ns["clean_memory"] # CleanMemoryFn
    /\ out[1]["result"].variables = {"x", "y"}
    /\ out[1]["result"].variable_count = 2

\* C14: interrupt sets the flag, answers interrupt_requested and leaves the
\* namespace alone; a set flag stays set through interrupt, get_state, ping
\* and rejected requests.
C14_FlagLevelTriggered ==
    /\ (Answered /\ rec.handler = "interrupt") =>
          /\ flag
          /\ ns = rec.before.namespace
          /\ Succeeded
          /\ out[1]["result"].status = Str("interrupt_requested")
    /\ (Answered /\ rec.before.flag /\ rec.handler # "reset" /\ ~rec.ran) => flag

\* a request other than interrupt was handled with the flag set, and it is
\* still set
C14_Witness ==
    /\ rec.handler = "get_state"
    /\ Succeeded
    /\ rec.before.flag
    /\ flag

\* the names the code of this line assigns or deletes
TouchedNames(l) ==
    IF l.params.code.t = "str" /\ l.params.code.s \in Codes \cup SessionCodes
    THEN {Program(l.params.code.s).steps[i].name :
            i \in 1..Len(Program(l.params.code.s).steps)}
    ELSE {}

\* C15: a binding stays, with its value, through every request but reset
\* and through every execute whose code does not assign or delete the name;
\* "y = x * 2" run where x is bound succeeds and binds y to twice x; and
\* get_state lists the name.
C15_BindingsPersist ==
    /\ (Answered /\ rec.ran) =>
          \A k \in DOMAIN rec.before.namespace \ TouchedNames(line) :
              k \in DOMAIN ns /\ ns[k] = rec.before.namespace[k]
    /\ (Answered /\ ~rec.ran /\ rec.handler # "reset") => ns = rec.before.namespace
    /\ (Answered /\ rec.ran /\ rec.returned /\ rec.signal = NoSignal
            /\ line.params.code = Str(CodeDouble)
            /\ "x" \in DOMAIN rec.before.namespace) =>
          /\ rec.result.success
          /\ "y" \in DOMAIN ns
          /\ ns["y"] = 2 * rec.before.namespace["x"]
          /\ ns["x"] = rec.before.namespace["x"]
    /\ (Answered /\ rec.handler = "get_state" /\ Succeeded) =>
          \A k \in {"x", "y"} \cap DOMAIN ns : k \in out[1]["result"].variables

\* "y = x * 2" ran after an earlier execute had bound x to 10
C15_Witness ==
    /\ rec.ran
    /\ line.params.code = Str(CodeDouble)
    /\ rec.result.success
    /\ "y" \notin DOMAIN rec.before.namespace
    /\ "x" \in DOMAIN ns /\ ns["x"] = 10
    /\ "y" \in DOMAIN ns /\ ns["y"] = 20

\* C19: get_memory_usage never raises, whatever fails while the readings
\* are obtained, and returns two readings that are >= 0; so no reset,
\* get_state or execute fails because of the probe.
C19_ProbeNeverRaises ==
    /\ rec.probe.raised = "none"
    /\ rec.probe.value.rss_mb.n >= 0
    /\ rec.probe.value.vms_mb.n >= 0
    /\ (Answered /\ loop = "handled"
            /\ (rec.handler \in {"reset", "get_state"} \/ rec.returned))
        => Succeeded

-----------------------------------------------------------------------------
(* Marker extraction read line by line (SpecMarkers).  args.text is the    *)
(* text, ret what parse_markers returned for it.                           *)

\* the lines of a text, split at its newlines
RECURSIVE SplitLines(_, _)
SplitLines(t, i) ==
    <<SubSeq(t, i, SkipOut(t, i, {"\n"}) - 1)>>
    \o (IF SkipOut(t, i, {"\n"}) > Len(t) THEN <<>>
        ELSE SplitLines(t, SkipOut(t, i, {"\n"}) + 1))

\* the tag a line begins with, the line taken alone
TagOf(l) == MARKER_REGEX(l, 1)

\* one marker for each line that begins with a tag, in document order, its
\* fields read off that line alone
RECURSIVE LineMarkers(_, _)
LineMarkers(lines, i) ==
    IF i > Len(lines) THEN <<>>
    ELSE (IF TagOf(lines[i]).ok
          THEN <<[type |-> TagOf(lines[i]).type,
                  subtype |-> TagOf(lines[i]).subtype,
                  content |-> TagOf(lines[i]).content,
                  line_number |-> i,
                  category |-> CategoryOf(TagOf(lines[i]).type)]>>
          ELSE <<>>)
         \o LineMarkers(lines, i + 1)

ExpectedMarkers == LineMarkers(SplitLines(args.text, 1), 1)

\* the line on which the bracket of the i-th match stands
BracketLine(i) ==
    CountNewlines(args.text, finditer(args.text, 1)[i].bracket - 1) + 1

\* C16: the markers correspond one to one, in document order, to the lines
\* that begin (after optional whitespace) with a bracketed tag; a text with
\* no such line yields no marker.
C16_OneMarkerPerTagLine ==
    loop = "parsed" =>
        /\ Len(ret) = Len(ExpectedMarkers)
        /\ \A i \in 1..Len(ret) : ret[i].type = ExpectedMarkers[i].type

\* C17: each marker's line_number is the 1-indexed number of the line on
\* which its bracketed tag stands, also after blank lines.
C17_LineNumberOfTag ==
    loop = "parsed" =>
        \A i \in 1..Len(ret) : ret[i].line_number = BracketLine(i)

\* C18: each line of the form [TYPE] content or [TYPE:SUBTYPE] content has
\* a marker with that type and subtype, the rest of that same line trimmed
\* as content, and the table's category for the type or unknown.
C18_FieldsOfTheLine ==
    loop = "parsed" =>
        \A k \in 1..Len(ExpectedMarkers) :
            \E i \in 1..Len(ret) :
                /\ BracketLine(i) = ExpectedMarkers[k].line_number
                /\ ret[i].type = ExpectedMarkers[k].type
                /\ ret[i].subtype = ExpectedMarkers[k].subtype
                /\ ret[i].content = ExpectedMarkers[k].content
                /\ ret[i].category = ExpectedMarkers[k].category

\* C20: in every execute response markers is the extraction of the stdout
\* of that run, artifacts is empty and there is an error object exactly
\* when success is false; code that prints a [STEP] line and then raises
\* gets success false, the error's kind as error.type and the one STEP marker.
C20_MarkersOfStdout ==
    (Answered /\ rec.handler = "execute" /\ Succeeded) =>
        /\ out[1]["result"].markers = parse_markers(rec.result.stdout)
        /\ out[1]["result"].stdout = rec.result.stdout
        /\ out[1]["result"].artifacts = <<>>
        /\ ("error" \in DOMAIN out[1]["result"]) <=> ~out[1]["result"].success
        /\ (line.params.code = Str(CodePrintRaise) /\ rec.signal = NoSignal) =>
              /\ ~out[1]["result"].success
              /\ out[1]["result"].error.type = Str("RuntimeError")
              /\ Len(out[1]["result"].markers) = 1
              /\ out[1]["result"].markers[1].type = "STEP"
              /\ out[1]["result"].markers[1].content = "start"
              /\ out[1]["result"].markers[1].category = "workflow"

\* the printing and raising code was run and answered
C20_Witness ==
    /\ rec.handler = "execute"
    /\ Succeeded
    /\ line.params.code = Str(CodePrintRaise)
    /\ rec.signal = NoSignal
    /\ ~out[1]["result"].success
    /\ Len(out[1]["result"].markers) = 1

-----------------------------------------------------------------------------
(* Socket mode *)

\* the names get_state reports on namespace n
UserNames(n) ==
    {k \in DOMAIN n : ~StartsWithUnderscore(k)
                      /\ k \notin {"clean_memory", "get_memory"}}

\* C21: in socket mode a connection is served until its input ends or its
\* handling fails, is then closed, and the server goes back to accept
\* whatever the connection sent: the server stops serving only on a
\* termination signal or a failing accept, and no connection is open while
\* it waits in accept.
C21_ServerKeepsAccepting ==
    /\ loop = "exited" => srv.why \in {"signal", "accept"}
    /\ loop = "accept" => ~srv.conn /\ srv.listening

\* C22: every connection has an execution context of its own: a newly
\* accepted connection starts with no user variables and a clear interrupt
\* flag, its first get_state lists no variable and its first execute cannot
\* read a name bound on an earlier connection.
C22_ContextPerConnection ==
    /\ (loop = "serving" /\ srv.requests = 0) =>
          UserNames(ns) = {} /\ ~flag
    /\ (loop = "serving" /\ srv.requests = 1 /\ Succeeded) =>
          /\ rec.handler = "get_state" => out[1]["result"].variables = {}
          /\ (rec.handler = "execute" /\ line.params.code = Str(CodeDouble)
              /\ rec.signal = NoSignal) => ~out[1]["result"].success

\* C23: in socket mode a termination signal delivered in any state (in
\* accept, reading a connection, running submitted code) leads to the
\* listening socket closed, its path removed and the process exited with
\* status 0.
C23_SignalLeadsToExit ==
    srv.signalled ~> (/\ loop = "exited"
                      /\ ~srv.listening
                      /\ ~srv.path
                      /\ srv.status = "0")

-----------------------------------------------------------------------------
(* Serial processing *)

\* C24: requests are processed strictly serially, in arrival order: a line
\* is handed to process_request only while the loop is reading and nothing
\* is being handled, and when the loop goes on to read the next line the
\* one response to the line just handled has been written.
C24_StrictlySerial ==
    [][/\ (line' # line /\ line' \notin {NoLine, BlankLine}) =>
              /\ loop = "read"
              /\ out = <<>>
              /\ rec = NoRun
       /\ loop' = "handled" => Len(out') = 1
       /\ (loop = "handled" /\ loop' = "read") => Len(out) = 1
       /\ loop = "hung" => loop' = "hung" /\ line' = line]_vars

\* a request was answered on a context that an earlier request had changed
C24_Witness ==
    /\ loop = "handled"
    /\ Len(out) = 1
    /\ line.json = "object"
    /\ "x" \in DOMAIN rec.before.namespace

-----------------------------------------------------------------------------
(* Lock discipline *)

\* caller c is inside reset or inside execute
Operating(c) ==
    threads.pc[c] \in {"reset_locked", "reset_cleared", "reset_seeded",
                       "exec_running", "exec_ran"}

\* C25: execute and reset hold the context's lock for their whole duration,
\* so at most one of them operates on the namespace at any time, and
\* get_state never reads the namespace while a reset or execute is in
\* progress, whichever callers invoke them.
C25_LockDiscipline ==
    \A c \in Callers :
        /\ Operating(c) => threads.lock = c
        /\ threads.pc[c] = "get_state_reading" =>
              \A d \in Callers \ {c} : ~Operating(d)

-----------------------------------------------------------------------------
(* Output capture *)

\* C26: output capture is scoped to the run: text that executed code writes
\* to the standard output channel ends up in the result's stdout field
\* only, and on no exit path of execute_code does any of it reach the
\* protocol sink, which carries nothing but responses.
C26_CaptureScoped ==
    (rec.handler = "execute" /\ rec.ran) =>
        /\ rec.fd1 = <<>>
        /\ (Succeeded /\ rec.signal = NoSignal
            /\ line.params.code = Str(CodePrintRaise)) =>
              out[1]["result"].stdout = StepLine

-----------------------------------------------------------------------------
(* Parse failures *)

\* the submitted code was handed to compile() and compile() raised
ParseFailed ==
    /\ rec.handler = "execute"
    /\ rec.ran
    /\ line.params.code = Str(CodeSyntax)
    /\ ~(rec.signal.sig # "none" /\ rec.signal.at = "run")

\* C27: when the submitted code fails to parse as a unit none of it is
\* executed: the namespace is exactly what it was, nothing is captured on
\* stdout or stderr, and the result execute_code returns has success false,
\* exception kind SyntaxError and a traceback.
C27_ParseFailureRunsNothing ==
    /\ (rec.handler = "execute" /\ rec.ran /\ line.params.code = Str(CodeSyntax)) =>
          /\ ns = rec.before.namespace
          /\ rec.fd1 = <<>>
    /\ (ParseFailed /\ rec.returned) =>
          /\ ~rec.result.success
          /\ rec.result.stdout = <<>>
          /\ rec.result.stderr = <<>>
          /\ rec.result.exception_type = Str("SyntaxError")
          /\ IsStr(rec.result.traceback)
          /\ rec.result.traceback.s # ""
          /\ (Succeeded => /\ ~out[1]["result"].success
                           /\ out[1]["result"].error.type = Str("SyntaxError"))

\* code that does not parse was submitted on a context that binds x, and
\* answered
C27_Witness ==
    /\ ParseFailed
    /\ rec.returned
    /\ Succeeded
    /\ "x" \in DOMAIN ns
    /\ out[1]["result"].error.type = Str("SyntaxError")

-----------------------------------------------------------------------------
(* Read-only methods *)

\* the same get_state request handled once more on the context as it is now
GetStateAgain(m) ==
    handle_get_state(Get(line.id), ParamsOf(line), ns, flag, NoSignal, m)

\* C28: get_state and ping are read-only: handling either leaves the
\* namespace bindings and the interrupt flag exactly as they were, and a
\* second get_state with no operation in between reports the same
\* variables and the same variable_count.
C28_ReadOnly ==
    /\ rec.handler \in {"get_state", "ping"} =>
          /\ ns = rec.before.namespace
          /\ flag = rec.before.flag
    /\ (rec.handler = "get_state" /\ Succeeded) =>
          \A m \in Probes :
              /\ GetStateAgain(m).namespace = ns
              /\ GetStateAgain(m).flag = flag
              /\ GetStateAgain(m).raised = "none" =>
                    /\ GetStateAgain(m).out[1]["result"].variables =
                          out[1]["result"].variables
                    /\ GetStateAgain(m).out[1]["result"].variable_count =
                          out[1]["result"].variable_count

\* get_state answered on a context with x bound and the flag set
C28_Witness ==
    /\ rec.handler = "get_state"
    /\ Succeeded
    /\ flag
    /\ out[1]["result"].variables = {"x"}
    /\ out[1]["result"].variable_count = 1

-----------------------------------------------------------------------------
(* Error codes *)

\* C29: every error response carries one of the five codes -32700, -32600,
\* -32601, -32602, -32603; the reserved codes -32000 and -32001 are never
\* emitted, and executed code that fails or times out is answered with a
\* result (success false), not with an error response.
C29_OnlyStandardCodes ==
    /\ \A i \in 1..Len(out) :
          "error" \in DOMAIN out[i] =>
              /\ out[i]["error"]["code"] \in {-32700, -32600, -32601, -32602, -32603}
              /\ out[i]["error"]["code"] \notin {ERROR_EXECUTION, ERROR_TIMEOUT}
    /\ (rec.handler = "execute" /\ rec.returned /\ ~rec.result.success
        /\ rec.probe.raised = "none") =>
          /\ Succeeded
          /\ ~out[1]["result"].success

\* code that timed out was answered with a result
C29_Witness ==
    /\ rec.handler = "execute"
    /\ rec.returned
    /\ rec.result.exception_type = Str("TimeoutError")
    /\ Succeeded
    /\ ~out[1]["result"].success
    /\ out[1]["result"].error.type = Str("TimeoutError")

-----------------------------------------------------------------------------
(* The interrupt flag and execute *)

\* the request just handled, handled on the context it found but with the
\* interrupt flag f
ExecuteWith(f, m) ==
    process_request(line, rec.before.namespace, f, rec.signal, m, sigalrm)

-----------------------------------------------------------------------------
(* Failed runs *)

\* execute_code returned a result with success false
FailedRun ==
    /\ rec.handler = "execute"
    /\ rec.ran
    /\ rec.returned
    /\ ~rec.result.success

\* the steps of the submitted code that ran before the signal arrived
StepsBeforeSignal ==
    IF rec.signal.cut <= Len(Program(line.params.code.s).steps)
    THEN rec.signal.cut
    ELSE Len(Program(line.params.code.s).steps)

\* C31: a failed run is not rolled back: what the code bound before a
\* runtime failure, a timeout or an interrupt is in the namespace after
\* execute returns success false, nothing else that was bound is lost, and
\* the bindings are listed by a later get_state and read by a later
\* execute, through every request but reset.
C31_NoRollback ==
    /\ (FailedRun /\ rec.signal = NoSignal
        /\ line.params.code = Str(CodeAssignRaise)) =>
          /\ rec.result.exception_type = Str("ValueError")
          /\ "a" \in DOMAIN ns
          /\ ns["a"] = 1
    /\ (FailedRun /\ rec.signal.sig \in {"ALRM", "INT"}) =>
          /\ rec.result.exception_type =
                Str(IF rec.signal.sig = "ALRM" THEN "TimeoutError"
                    ELSE "KeyboardInterrupt")
          /\ \A i \in 1..StepsBeforeSignal :
                Program(line.params.code.s).steps[i].op = "bind" =>
                    /\ Program(line.params.code.s).steps[i].name \in DOMAIN ns
                    /\ ns[Program(line.params.code.s).steps[i].name] =
                          Program(line.params.code.s).steps[i].val
    /\ FailedRun =>
          \A k \in DOMAIN rec.before.namespace \ TouchedNames(line) :
              k \in DOMAIN ns /\ ns[k] = rec.before.namespace[k]
    /\ (Answered /\ rec.handler # "reset" /\ "a" \in DOMAIN rec.before.namespace) =>
          "a" \in DOMAIN ns /\ ns["a"] = 1
    /\ (Answered /\ rec.handler = "get_state" /\ Succeeded
        /\ "a" \in DOMAIN rec.before.namespace) =>
          "a" \in out[1]["result"].variables
    /\ (Answered /\ rec.ran /\ rec.returned /\ rec.signal = NoSignal
        /\ line.params.code = Str(CodeTriple)
        /\ "a" \in DOMAIN rec.before.namespace) =>
          /\ rec.result.success
          /\ "b" \in DOMAIN ns
          /\ ns["b"] = 3

\* "b = a * 3" succeeded: a was bound by the run that then raised ValueError
C31_Witness ==
    /\ rec.ran
    /\ rec.returned
    /\ line.params.code = Str(CodeTriple)
    /\ rec.result.success
    /\ "a" \in DOMAIN rec.before.namespace
    /\ "b" \in DOMAIN ns /\ ns["b"] = 3

====
